---- MODULE Spec2Model ----
(***************************************************************************)
(* Model of generate_calendars.py: a schedule grid (CSV cells) is          *)
(* normalised, scanned for month header blocks, turned into dated events   *)
(* per team, and written as one calendar per team plus an index page.      *)
(*                                                                         *)
(* Text is modelled at character level: a string is a sequence of          *)
(* one-character strings.  Characters outside ASCII are written by code    *)
(* point, e.g. "U+6708" is the month glyph.  Column numbers are the        *)
(* 0-based numbers of the code; row[col] is row[col + 1] here.             *)
(***************************************************************************)
EXTENDS Integers, Sequences, FiniteSets, TLC

(* ------------------------------ bounds -------------------------------- *)

\* Largest number of rows of a grid built from RowPool.
MaxRows == 3
\* Largest length of a free cell text built over CleanAlphabet.
MaxLen == 3

(* ---------------------------- characters ------------------------------ *)

GATSU == "U+6708"      \* the month glyph
IDSP == "U+3000"       \* ideographic space (whitespace, NFKC gives " ")
FW4 == "U+FF14"        \* full-width digit four (NFKC gives "4")
FWCOLON == "U+FF1A"    \* full-width colon (NFKC gives ":")
FWTILDE == "U+FF5E"    \* full-width tilde (NFKC gives "~")
WAVE == "U+301C"       \* wave dash (NFKC leaves it)
ENDASH == "U+2013"
EMDASH == "U+2014"
DAKUTEN == "U+309B"    \* spacing voiced sound mark (NFKC gives " " U+3099)
CDAKUTEN == "U+3099"   \* combining voiced sound mark
INU == "U+72AC"        \* a kanji (dog)
NEKO == "U+732B"       \* a kanji (cat)

Digits == <<"0", "1", "2", "3", "4", "5", "6", "7", "8", "9">>
Upper == <<"A", "B", "C", "D", "E", "F", "G", "H", "I", "J", "K", "L", "M",
           "N", "O", "P", "Q", "R", "S", "T", "U", "V", "W", "X", "Y", "Z">>
Lower == <<"a", "b", "c", "d", "e", "f", "g", "h", "i", "j", "k", "l", "m",
           "n", "o", "p", "q", "r", "s", "t", "u", "v", "w", "x", "y", "z">>
NonAscii == <<EMDASH, ENDASH, WAVE, CDAKUTEN, DAKUTEN, IDSP, GATSU, INU, NEKO,
              FW4, FWCOLON, FWTILDE>>
NonAsciiCode == <<8212, 8211, 12316, 12441, 12443, 12288, 26376, 29356, 29483,
                  65300, 65306, 65374>>

Range(s) == {s[k] : k \in DOMAIN s}
IndexOf(s, c) == CHOOSE k \in DOMAIN s : s[k] = c

IsDigit(c) == c \in Range(Digits)
IsAscii(c) == c \notin Range(NonAscii)
\* str.isspace() and the regex class \s agree on the characters used here.
SpaceChars == {" ", IDSP}
IsSpace(c) == c \in SpaceChars
\* the regex class \w on an ASCII string
WordChars == Range(Digits) \cup Range(Upper) \cup Range(Lower) \cup {"_"}

\* ord(c), used by sorted() to order team names
CodePoint(c) ==
    IF c \in Range(Digits) THEN 47 + IndexOf(Digits, c)
    ELSE IF c \in Range(Upper) THEN 64 + IndexOf(Upper, c)
    ELSE IF c \in Range(Lower) THEN 96 + IndexOf(Lower, c)
    ELSE IF c \in Range(NonAscii) THEN NonAsciiCode[IndexOf(NonAscii, c)]
    ELSE CASE c = " " -> 32 [] c = "!" -> 33 [] c = "(" -> 40 [] c = ")" -> 41
           [] c = "-" -> 45 [] c = "." -> 46 [] c = ":" -> 58
           [] c = "_" -> 95 [] c = "~" -> 126

\* int() of a string of ASCII digits
RECURSIVE ToInt(_)
ToInt(s) ==
    IF s = <<>> THEN 0
    ELSE 10 * ToInt(SubSeq(s, 1, Len(s) - 1)) + (IndexOf(Digits, s[Len(s)]) - 1)

\* str(n) for n >= 0
RECURSIVE ToStr(_)
ToStr(n) == IF n < 10 THEN <<Digits[n + 1]>>
            ELSE ToStr(n \div 10) \o <<Digits[(n % 10) + 1]>>

\* f"{n:0Wd}"
RECURSIVE Pad(_, _)
Pad(s, w) == IF Len(s) >= w THEN s ELSE Pad(<<"0">> \o s, w)

RECURSIVE Flatten(_)
Flatten(ss) == IF ss = <<>> THEN <<>> ELSE Head(ss) \o Flatten(Tail(ss))

(* ------------------------- unicodedata ------------------------------- *)

\* unicodedata.normalize("NFKC", c) for one character.  No two characters
\* used here compose with each other, so a string is normalised
\* character by character.
NFKCChar(c) ==
    CASE c = IDSP -> <<" ">>
      [] c = FW4 -> <<"4">>
      [] c = FWCOLON -> <<":">>
      [] c = FWTILDE -> <<"~">>
      [] c = DAKUTEN -> <<" ", CDAKUTEN>>
      [] OTHER -> <<c>>

NFKC(s) == Flatten([k \in DOMAIN s |-> NFKCChar(s[k])])

\* NFKD differs from NFKC only in not composing; nothing composes here.
NFKD(s) == Flatten([k \in DOMAIN s |-> NFKCChar(s[k])])

(* ------------------------------ str ----------------------------------- *)

\* c belongs to the character class: the set cls, or its complement
InClass(c, cls, negated) == (c \in cls) # negated

RECURSIVE LStrip(_, _, _)
LStrip(s, cls, negated) ==
    IF s # <<>> /\ InClass(Head(s), cls, negated)
    THEN LStrip(Tail(s), cls, negated) ELSE s

RECURSIVE RStrip(_, _, _)
RStrip(s, cls, negated) ==
    IF s # <<>> /\ InClass(s[Len(s)], cls, negated)
    THEN RStrip(SubSeq(s, 1, Len(s) - 1), cls, negated) ELSE s

\* s.strip(): leading and trailing characters of the set cls removed
Strip(s, cls) == RStrip(LStrip(s, cls, FALSE), cls, FALSE)

\* re.sub(r"[class]+", rep, s): every maximal run of characters of the
\* class is replaced by the one character rep
RECURSIVE SubRuns(_, _, _, _)
SubRuns(s, cls, negated, rep) ==
    IF s = <<>> THEN <<>>
    ELSE IF InClass(Head(s), cls, negated)
         THEN <<rep>> \o SubRuns(LStrip(s, cls, negated), cls, negated, rep)
         ELSE <<Head(s)>> \o SubRuns(Tail(s), cls, negated, rep)

ToLower(c) == IF c \in Range(Upper) THEN Lower[IndexOf(Upper, c)] ELSE c

\* s1 < s2 as Python compares strings: by code point, a prefix first
RECURSIVE StrLess(_, _)
StrLess(s1, s2) ==
    IF s2 = <<>> THEN FALSE
    ELSE IF s1 = <<>> THEN TRUE
    ELSE IF Head(s1) = Head(s2) THEN StrLess(Tail(s1), Tail(s2))
    ELSE CodePoint(Head(s1)) < CodePoint(Head(s2))

(* ----------------------------- helpers -------------------------------- *)

\* clean(text): strip, then NFKC, then collapse whitespace runs
clean(text) == SubRuns(NFKC(Strip(text, SpaceChars)), SpaceChars, FALSE, " ")

\* Python's None, kept comparable with strings (no string holds this token)
None == <<"None">>
\* truth value of a string or None in a condition
Truthy(v) == v # None /\ v # <<>>

\* normalize_time_string(s)
normalize_time_string(s) ==
    LET s1 == NFKC(s)
        s2 == [k \in DOMAIN s1 |->
                 IF s1[k] \in {WAVE, FWTILDE, ENDASH, EMDASH, "~"} THEN "-" ELSE s1[k]]
    IN [k \in DOMAIN s2 |-> IF s2[k] = FWCOLON THEN ":" ELSE s2[k]]

\* t[i .. i+n-1] are n digits (regex \d)
DigitsAt(t, i, n) == i + n - 1 <= Len(t) /\ \A k \in i..(i + n - 1) : IsDigit(t[k])
CharAt(t, i, c) == i <= Len(t) /\ t[i] = c

\* the position after the regex \s* matched greedily from position i
RECURSIVE SkipSpaces(_, _)
SkipSpaces(t, i) == IF i <= Len(t) /\ IsSpace(t[i]) THEN SkipSpaces(t, i + 1) ELSE i

\* length matched by \d{1,2}:\d{2} at position i, 0 when it does not match
ColonTimeLen(t, i) ==
    IF DigitsAt(t, i, 2) /\ CharAt(t, i + 2, ":") /\ DigitsAt(t, i + 3, 2) THEN 5
    ELSE IF DigitsAt(t, i, 1) /\ CharAt(t, i + 1, ":") /\ DigitsAt(t, i + 2, 2) THEN 4
    ELSE 0

\* length matched by \d{1,2} (greedy) at position i, 0 when it does not match
BareLen(t, i) == IF DigitsAt(t, i, 2) THEN 2 ELSE IF DigitsAt(t, i, 1) THEN 1 ELSE 0

\* length matched at position i by the time pattern of the kind: "colon" for
\* \d{1,2}:\d{2}, "bare" for \d{1,2}
TimeLen(t, i, kind) == IF kind = "colon" THEN ColonTimeLen(t, i) ELSE BareLen(t, i)

\* The match of (group1)\s*[-]\s*(group2) with group 1 at position i, given
\* the length n1 of group 1, the position j after the spaces that follow it,
\* the position k after the dash and its spaces, and the length n2 of group 2.
Groups(t, i, n1, j, k, n2) ==
    [found |-> n1 > 0 /\ CharAt(t, j, "-") /\ n2 > 0,
     g1 |-> SubSeq(t, i, i + n1 - 1),
     g2 |-> SubSeq(t, k, k + n2 - 1)]

AfterDash(t, i, kind, n1, j, k) == Groups(t, i, n1, j, k, TimeLen(t, k, kind))
AfterGroup1(t, i, kind, n1, j) == AfterDash(t, i, kind, n1, j, SkipSpaces(t, j + 1))
WithGroup1(t, i, kind, n1) == AfterGroup1(t, i, kind, n1, SkipSpaces(t, i + n1))

\* the pattern matched with group 1 starting at position i.  The optional
\* parentheses around the pattern do not change which groups the leftmost
\* match captures.
RangeAt(t, i, kind) == WithGroup1(t, i, kind, TimeLen(t, i, kind))

\* the match at the leftmost of the positions at
LeftmostOf(t, kind, at) ==
    IF at = {} THEN [found |-> FALSE, g1 |-> <<>>, g2 |-> <<>>]
    ELSE RangeAt(t, CHOOSE i \in at : \A i2 \in at : i <= i2, kind)

\* re.search: the match at the leftmost position (found is FALSE for no match)
Search(t, kind) == LeftmostOf(t, kind, {i \in 1..Len(t) : RangeAt(t, i, kind).found})

\* the result of extract_time_range for the matches m1, m2 of its two patterns
TimeRangeOf(m1, m2) ==
    IF m1.found THEN <<m1.g1, m1.g2>>
    ELSE IF m2.found
         THEN <<Pad(ToStr(ToInt(m2.g1)), 2) \o <<":", "0", "0">>,
                Pad(ToStr(ToInt(m2.g2)), 2) \o <<":", "0", "0">>>>
    ELSE <<None, None>>

SearchBoth(text) == TimeRangeOf(Search(text, "colon"), Search(text, "bare"))

\* extract_time_range(text): <<start, end>> or <<None, None>>
extract_time_range(text) == SearchBoth(normalize_time_string(text))

\* date.isoformat() of datetime(year, month, day)
isoformat(date) ==
    Pad(ToStr(date.year), 4) \o <<"-">> \o Pad(ToStr(date.month), 2) \o <<"-">>
    \o Pad(ToStr(date.day), 2) \o <<"T", "0", "0", ":", "0", "0", ":", "0", "0">>

\* hashlib.md5(...).hexdigest(): the digest is represented by the string
\* that was hashed (md5 taken as collision-free)
md5(s) == s

\* generate_uid(date, team, content)
generate_uid(date, team, content) ==
    md5(isoformat(date) \o <<"-">> \o team \o <<"-">> \o content)

\* slugify(text, fallback_index); fallback_index=None is written -1 here
slugify(text, fallback_index) ==
    LET text_ascii == SelectSeq(NFKD(text), IsAscii)
        lowered == [k \in DOMAIN text_ascii |-> ToLower(text_ascii[k])]
        slug == Strip(SubRuns(lowered, WordChars, TRUE, "_"), {"_"})
    IN IF slug # <<>> THEN slug
       ELSE IF fallback_index # -1
            THEN <<"c", "a", "l", "e", "n", "d", "a", "r", "_">> \o ToStr(fallback_index)
       ELSE <<"c", "a", "l", "e", "n", "d", "a", "r">>

\* f"{slug}.ics"
IcsName(slug) == slug \o <<".", "i", "c", "s">>

\* sorted(S) for a set of strings
RECURSIVE sorted(_)
sorted(S) ==
    IF S = {} THEN <<>>
    ELSE LET m == CHOOSE x \in S : \A y \in S \ {x} : StrLess(x, y)
         IN <<m>> \o sorted(S \ {m})

(* --------------------------- datetime --------------------------------- *)

IsLeap(y) == (y % 4 = 0 /\ y % 100 # 0) \/ y % 400 = 0

DaysInMonth(y, m) ==
    IF m = 2 THEN (IF IsLeap(y) THEN 29 ELSE 28)
    ELSE IF m \in {4, 6, 9, 11} THEN 30 ELSE 31

\* datetime(year, month, day) does not raise ValueError
ValidDate(year, month, day) ==
    /\ year \in 1..9999
    /\ month \in 1..12
    /\ day \in 1..DaysInMonth(year, month)

\* datetime.strptime(s, "%H:%M") does not raise ValueError; s is H:MM or HH:MM
ValidClock(s) ==
    LET c == IndexOf(s, ":")
    IN ToInt(SubSeq(s, 1, c - 1)) <= 23 /\ ToInt(SubSeq(s, c + 1, Len(s))) <= 59

\* the time of day of strptime(s, "%H:%M"), in minutes
ClockMinutes(s) ==
    LET c == IndexOf(s, ":")
    IN 60 * ToInt(SubSeq(s, 1, c - 1)) + ToInt(SubSeq(s, c + 1, Len(s)))

(* ------------------------- block detection ---------------------------- *)

\* re.fullmatch(r"\d{1,2}<month glyph>", cell)
IsMonthLabel(cell) ==
    /\ Len(cell) \in {2, 3}
    /\ cell[Len(cell)] = GATSU
    /\ \A k \in 1..(Len(cell) - 1) : IsDigit(cell[k])

\* re.fullmatch(r"\d{1,2}", s)
IsDayNumber(s) == Len(s) \in {1, 2} /\ \A k \in 1..Len(s) : IsDigit(s[k])

\* the block-start test of the column loop: a month label whose next cell is empty
IsBlockStart(row, col) == IsMonthLabel(row[col + 1]) /\ row[col + 2] = <<>>

\* the test that ends the team-column scan
EndsTeamScan(row, scan) == IsMonthLabel(row[scan + 1])

\* the inner while loop: team columns collected from column scan on;
\* gives the team columns and the column the scan stopped at
RECURSIVE TeamScan(_, _, _)
TeamScan(row, scan, team_cols) ==
    IF ~(scan < Len(row)) \/ EndsTeamScan(row, scan)
    THEN [team_cols |-> team_cols, scan |-> scan]
    ELSE LET name == clean(row[scan + 1])
         IN TeamScan(row, scan + 1,
                     IF name # <<>> THEN Append(team_cols, [col |-> scan, team |-> name])
                     ELSE team_cols)

\* the year bookkeeping done at a block start for its month
TrackYear(acc, month) ==
    LET cy == IF acc.month_sequence # <<>>
                 /\ month < acc.month_sequence[Len(acc.month_sequence)]
              THEN acc.current_year + 1 ELSE acc.current_year
        first == month \notin DOMAIN acc.year_for_month
    IN [current_year |-> cy,
        year_for_month |->
            IF first
            THEN [m \in DOMAIN acc.year_for_month \cup {month} |->
                    IF m = month THEN cy ELSE acc.year_for_month[m]]
            ELSE acc.year_for_month,
        month_sequence |->
            IF first THEN Append(acc.month_sequence, month) ELSE acc.month_sequence]

\* acc after the block start at column col: the year bookkeeping yr, and the
\* block added when its team scan ts found team columns
WithBlock(acc, col, month, yr, ts) ==
    [blocks |-> IF ts.team_cols # <<>>
                THEN Append(acc.blocks, [start_col |-> col, month |-> month,
                                         team_cols |-> ts.team_cols])
                ELSE acc.blocks,
     current_year |-> yr.current_year,
     year_for_month |-> yr.year_for_month,
     month_sequence |-> yr.month_sequence]

\* int(row[col].replace(<month glyph>, ""))
MonthOf(label) == ToInt(SubSeq(label, 1, Len(label) - 1))

RECURSIVE DetectFrom(_, _, _)

\* the loop continues at the column where the team scan ts stopped
AfterTeamScan(row, col, acc, month, ts) ==
    DetectFrom(row, ts.scan, WithBlock(acc, col, month, TrackYear(acc, month), ts))

\* the column loop over one row, from column col on; acc carries the blocks
\* found in the row and the year bookkeeping
DetectFrom(row, col, acc) ==
    IF ~(col < Len(row) - 1) THEN acc
    ELSE IF IsBlockStart(row, col)
    THEN AfterTeamScan(row, col, acc, MonthOf(row[col + 1]), TeamScan(row, col + 2, <<>>))
    ELSE DetectFrom(row, col + 1, acc)

(* -------------------------- event extraction -------------------------- *)

\* events_by_team[team].append((date, content)) on the insertion-ordered dict
AddEvent(ebt, team, date, content) ==
    IF \E k \in DOMAIN ebt : ebt[k].team = team
    THEN [k \in DOMAIN ebt |->
            IF ebt[k].team = team
            THEN [team |-> team,
                  events |-> Append(ebt[k].events, [date |-> date, content |-> content])]
            ELSE ebt[k]]
    ELSE Append(ebt, [team |-> team,
                      events |-> <<[date |-> date, content |-> content]>>])

\* the test that a team cell yields an event
HasContent(content) == content # <<>>

\* the body of the team column loop for a column inside the row
AddContent(ebt, team, date, content) ==
    IF HasContent(content) THEN AddEvent(ebt, team, date, content) ELSE ebt

\* the loop over the team columns of one block, from the k-th on
RECURSIVE ExtractTeams(_, _, _, _, _)
ExtractTeams(row, team_cols, k, date, ebt) ==
    IF k > Len(team_cols) THEN ebt
    ELSE ExtractTeams(row, team_cols, k + 1, date,
            IF team_cols[k].col < Len(row)
            THEN AddContent(ebt, team_cols[k].team, date, clean(row[team_cols[k].col + 1]))
            ELSE ebt)

\* the body of the active block loop for a block whose start column lies
\* inside the row: day_str is the cleaned day cell, year the block's year
ExtractBlock(row, blk, day_str, year, ebt) ==
    IF ~IsDayNumber(day_str) \/ ~ValidDate(year, blk.month, ToInt(day_str))
    THEN ebt
    ELSE ExtractTeams(row, blk.team_cols, 1,
                      [year |-> year, month |-> blk.month, day |-> ToInt(day_str)], ebt)

\* year_for_month.get(month, base_year)
YearOf(yfm, month, by) == IF month \in DOMAIN yfm THEN yfm[month] ELSE by

\* the loop over the active blocks for one row, from the b-th on
RECURSIVE ExtractBlocks(_, _, _, _, _, _)
ExtractBlocks(row, blocks, b, yfm, by, ebt) ==
    IF b > Len(blocks) THEN ebt
    ELSE ExtractBlocks(row, blocks, b + 1, yfm, by,
            IF blocks[b].start_col >= Len(row) THEN ebt
            ELSE ExtractBlock(row, blocks[b], clean(row[blocks[b].start_col + 1]),
                              YearOf(yfm, blocks[b].month, by), ebt))

RECURSIVE CountEvents(_)
CountEvents(ebt) ==
    IF ebt = <<>> THEN 0 ELSE Len(Head(ebt).events) + CountEvents(Tail(ebt))

(* --------------------------- calendar entries ------------------------- *)

TIMEZONE == <<"A", "s", "i", "a", "/", "T", "o", "k", "y", "o">>

\* a setter that accepts an end before the begin
EndAcceptedAlways(start_str, end_str) == TRUE

\* event.end = end_dt is accepted by the calendar library's setter: it raises
\* ValueError when the end lies before the begin already set
EndAccepted(start_str, end_str) == ~(ClockMinutes(end_str) < ClockMinutes(start_str))

\* the try block sets begin and end without a ValueError
TimedOk(start_str, end_str) ==
    /\ ValidClock(start_str)
    /\ ValidClock(end_str)
    /\ EndAccepted(start_str, end_str)

\* the entry of (date, desc), given the time range found in desc and whether
\* the try block succeeded
EntryOf(date, team, desc, start_str, end_str, timed) ==
    [uid |-> generate_uid(date, team, desc),
     name |-> desc,
     date |-> date,
     all_day |-> ~timed,
     begin |-> IF timed THEN ClockMinutes(start_str) ELSE 0,
     end |-> IF timed THEN ClockMinutes(end_str) ELSE 0]

EntryFor(date, team, desc, start_str, end_str) ==
    EntryOf(date, team, desc, start_str, end_str,
            Truthy(start_str) /\ Truthy(end_str) /\ TimedOk(start_str, end_str))

EntryWith(date, team, desc, tr) == EntryFor(date, team, desc, tr[1], tr[2])

\* one pass of the event loop: the entry built for (date, desc) of team
MakeEvent(date, team, desc) == EntryWith(date, team, desc, extract_time_range(desc))

\* cal.events.add(event): entries are hashed and compared by uid
AddToCalendar(events, event) ==
    IF \E e \in events : e.uid = event.uid THEN events ELSE events \cup {event}

RECURSIVE CalendarEvents(_, _, _)
CalendarEvents(team, events, k) ==
    IF k = 0 THEN {}
    ELSE AddToCalendar(CalendarEvents(team, events, k - 1),
                       MakeEvent(events[k].date, team, events[k].content))

\* the calendar built for one team
BuildCalendar(team, events) ==
    [calname |-> team, timezone |-> TIMEZONE,
     events |-> CalendarEvents(team, events, Len(events))]

NoCalendar == [calname |-> <<>>, timezone |-> <<>>, events |-> {}]

\* the links of generate_index_html(output_dir, teams)
generate_index_html(teams) ==
    LET st == sorted(teams)
    IN [k \in DOMAIN st |-> [href |-> IcsName(slugify(st[k], k)), team |-> st[k]]]

(* ------------------------------ inputs -------------------------------- *)

EmptyCell == <<>>
MonthCell(n) == ToStr(n) \o <<GATSU>>
Alice == <<"A", "l", "i", "c", "e">>
Bob == <<"B", "o", "b">>
Lunch == <<"L", "u", "n", "c", "h">>
Standup == <<"S", "t", "a", "n", "d", "u", "p">>

\* Rows a grid is built from: header rows with one or two blocks, a label
\* followed by a non-empty cell, a data row holding a block start without
\* teams, and data rows with valid, out-of-range and non-numeric days.
RowPool ==
    { <<<<FW4, GATSU>>, <<IDSP>>, Alice, Bob, MonthCell(5), EmptyCell, Alice>>,
      <<MonthCell(11), EmptyCell, Alice, MonthCell(12), EmptyCell, Alice>>,
      <<MonthCell(1), EmptyCell, Alice, MonthCell(2), EmptyCell, Bob>>,
      <<MonthCell(4), EmptyCell, Alice, MonthCell(5), Bob>>,
      <<ToStr(3), EmptyCell, Lunch, MonthCell(6), EmptyCell>>,
      <<ToStr(3), EmptyCell, Lunch, EmptyCell, ToStr(1), EmptyCell, Standup>>,
      <<ToStr(31), EmptyCell, Lunch, EmptyCell, ToStr(31), EmptyCell, Lunch>>,
      <<ToStr(29), EmptyCell, Lunch, ToStr(29), EmptyCell, Lunch>>,
      <<<<"x">>>> }

RECURSIVE SeqsUpTo(_, _)
SeqsUpTo(S, n) ==
    IF n = 0 THEN {<<>>}
    ELSE LET shorter == SeqsUpTo(S, n - 1)
         IN shorter \cup {Append(q, x) : q \in {r \in shorter : Len(r) = n - 1}, x \in S}

Grids == SeqsUpTo(RowPool, MaxRows)

\* datetime.now().year
BaseYears == {2023, 2024}

\* Team names: names that differ only in case or punctuation, names without
\* any ASCII word character, and a name holding the uid separator.
TeamNames ==
    { <<"A">>, <<"a">>, <<"A", "-", "B">>, <<"A", "_", "B">>, <<NEKO>>, <<INU>> }
TeamTexts == { <<"C">>, <<"B", "-", "C">>, EmptyCell }

TeamGrids ==
    { << <<MonthCell(4), EmptyCell, n1, n2>>, <<ToStr(3), EmptyCell, t1, t2>> >> :
        n1 \in TeamNames, n2 \in TeamNames, t1 \in TeamTexts, t2 \in TeamTexts }

\* Free cell texts: whitespace, characters NFKC folds, and a character whose
\* NFKC form begins with a space.
CleanAlphabet == {" ", IDSP, "q", FW4, DAKUTEN}
CleanTexts == SeqsUpTo(CleanAlphabet, MaxLen)

\* Texts holding a time range: prefix, first time, separator, second time, suffix.
TimePrefixes == { <<>>, <<"x", " ">>, <<"(">> }
TimeSuffixes == { <<>>, <<" ", "x">>, <<")">> }
TimeSeparators == { <<"-">>, <<" ", "-", " ">>, <<WAVE>>, <<FWTILDE>>, <<" ">> }
TimeValues ==
    { <<"9">>, <<"1", "3">>, <<"1", "5">>, <<"2", "5">>,
      <<"9", ":", "0", "0">>, <<"1", "3", ":", "0", "0">>, <<"1", "4", FWCOLON, "3", "0">>,
      <<"2", "4", ":", "0", "0">>, <<"7", ":", "6", "0">> }
TimeTexts ==
    { p \o a \o sep \o b \o q :
        p \in TimePrefixes, a \in TimeValues, sep \in TimeSeparators,
        b \in TimeValues, q \in TimeSuffixes }

TextGrids ==
    { << <<MonthCell(4), EmptyCell, Alice>>, <<ToStr(3), EmptyCell, x>> >> :
        x \in CleanTexts \cup TimeTexts }

(* ------------------------------- state -------------------------------- *)

VARIABLES
    pc,             \* position of the script
    exit_code,      \* process exit status, -1 while running
    csv_rows,       \* the cells csv.reader yields
    rows,           \* the cleaned grid
    base_year, current_year, month_sequence, year_for_month,
    blocks_by_row,  \* row index -> blocks, for the rows that have blocks
    row_index,      \* the next row of the running loop
    active_blocks, events_by_team, event_count,
    i,              \* the next team of the writing loop
    cal,            \* the calendar built last
    files,          \* file name -> calendar written
    written,        \* the "team: n events -> file" lines printed, in order
    index_html      \* the links of index.html, <<>> before it is written

vars == <<pc, exit_code, csv_rows, rows, base_year, current_year, month_sequence,
          year_for_month, blocks_by_row, row_index, active_blocks, events_by_team,
          event_count, i, cal, files, written, index_html>>

\* the state when the script starts on grid g in year y
Start(g, y) ==
    /\ pc = "start"
    /\ exit_code = -1
    /\ csv_rows = g
    /\ rows = <<>>
    /\ base_year = y
    /\ current_year = y
    /\ month_sequence = <<>>
    /\ year_for_month = <<>>
    /\ blocks_by_row = <<>>
    /\ row_index = 0
    /\ active_blocks = <<>>
    /\ events_by_team = <<>>
    /\ event_count = 0
    /\ i = 0
    /\ cal = NoCalendar
    /\ files = <<>>
    /\ written = <<>>
    /\ index_html = <<>>

Init == \E g \in Grids, y \in BaseYears : Start(g, y)
InitTeams == \E g \in TeamGrids, y \in BaseYears : Start(g, y)
InitText == \E g \in TextGrids, y \in BaseYears : Start(g, y)

(* ------------------------------ actions ------------------------------- *)

Exit(code) ==
    /\ pc' = IF code = 0 THEN "done" ELSE "failed"
    /\ exit_code' = code

\* SHEET_CSV_URL is not set
ConfigMissing ==
    /\ pc = "start"
    /\ Exit(1)
    /\ UNCHANGED <<csv_rows, rows, base_year, current_year, month_sequence,
                   year_for_month, blocks_by_row, row_index, active_blocks,
                   events_by_team, event_count, i, cal, files, written,
                   index_html>>

\* response.raise_for_status() raises
HttpError ==
    /\ pc = "start"
    /\ Exit(1)
    /\ UNCHANGED <<csv_rows, rows, base_year, current_year, month_sequence,
                   year_for_month, blocks_by_row, row_index, active_blocks,
                   events_by_team, event_count, i, cal, files, written,
                   index_html>>

\* the payload is not UTF-8
DecodeError ==
    /\ pc = "start"
    /\ Exit(1)
    /\ UNCHANGED <<csv_rows, rows, base_year, current_year, month_sequence,
                   year_for_month, blocks_by_row, row_index, active_blocks,
                   events_by_team, event_count, i, cal, files, written,
                   index_html>>

\* rows = [[clean(cell) for cell in row] for row in reader]
Load ==
    /\ pc = "start"
    /\ rows' = [r \in DOMAIN csv_rows |->
                  [c \in DOMAIN csv_rows[r] |-> clean(csv_rows[r][c])]]
    /\ pc' = "detect"
    /\ row_index' = 0
    /\ UNCHANGED <<exit_code, csv_rows, base_year, current_year, month_sequence,
                   year_for_month, blocks_by_row, active_blocks, events_by_team,
                   event_count, i, cal, files, written, index_html>>

\* one pass of the block detection loop
DetectRow ==
    /\ pc = "detect"
    /\ row_index < Len(rows)
    /\ \E res \in {DetectFrom(rows[row_index + 1], 0,
                        [blocks |-> <<>>, current_year |-> current_year,
                         year_for_month |-> year_for_month,
                         month_sequence |-> month_sequence])} :
          /\ current_year' = res.current_year
          /\ year_for_month' = res.year_for_month
          /\ month_sequence' = res.month_sequence
          /\ blocks_by_row' =
                IF res.blocks # <<>>
                THEN [r \in DOMAIN blocks_by_row \cup {row_index} |->
                        IF r = row_index THEN res.blocks ELSE blocks_by_row[r]]
                ELSE blocks_by_row
    /\ row_index' = row_index + 1
    /\ UNCHANGED <<pc, exit_code, csv_rows, rows, base_year, active_blocks,
                   events_by_team, event_count, i, cal, files, written,
                   index_html>>

\* the detection loop ends; the extraction state is initialised
DetectEnd ==
    /\ pc = "detect"
    /\ row_index = Len(rows)
    /\ pc' = "extract"
    /\ row_index' = 0
    /\ active_blocks' = <<>>
    /\ events_by_team' = <<>>
    /\ event_count' = 0
    /\ UNCHANGED <<exit_code, csv_rows, rows, base_year, current_year,
                   month_sequence, year_for_month, blocks_by_row, i, cal, files,
                   written, index_html>>

\* one pass of the event row loop
ExtractRow ==
    /\ pc = "extract"
    /\ row_index < Len(rows)
    /\ IF row_index \in DOMAIN blocks_by_row
       THEN /\ active_blocks' = blocks_by_row[row_index]
            /\ UNCHANGED <<events_by_team, event_count>>
       ELSE /\ events_by_team' = ExtractBlocks(rows[row_index + 1], active_blocks, 1,
                                               year_for_month, base_year, events_by_team)
            /\ event_count' = event_count + (CountEvents(events_by_team')
                                              - CountEvents(events_by_team))
            /\ UNCHANGED active_blocks
    /\ row_index' = row_index + 1
    /\ UNCHANGED <<pc, exit_code, csv_rows, rows, base_year, current_year,
                   month_sequence, year_for_month, blocks_by_row, i, cal, files,
                   written, index_html>>

\* the event row loop ends; the summary is printed
ExtractEnd ==
    /\ pc = "extract"
    /\ row_index = Len(rows)
    /\ pc' = "write"
    /\ i' = 0
    /\ UNCHANGED <<exit_code, csv_rows, rows, base_year, current_year,
                   month_sequence, year_for_month, blocks_by_row, row_index,
                   active_blocks, events_by_team, event_count, cal, files, written,
                   index_html>>

\* one pass of the writing loop: the calendar of team i is built and written
WriteTeam ==
    /\ pc = "write"
    /\ i < Len(events_by_team)
    /\ cal' = BuildCalendar(events_by_team[i + 1].team, events_by_team[i + 1].events)
    /\ \E ics_path \in {IcsName(slugify(events_by_team[i + 1].team, i + 1))} :
          /\ files' = [n \in DOMAIN files \cup {ics_path} |->
                         IF n = ics_path THEN cal' ELSE files[n]]
          /\ written' = Append(written, [team |-> events_by_team[i + 1].team,
                                         count |-> Len(events_by_team[i + 1].events),
                                         path |-> ics_path])
    /\ i' = i + 1
    /\ UNCHANGED <<pc, exit_code, csv_rows, rows, base_year, current_year,
                   month_sequence, year_for_month, blocks_by_row, row_index,
                   active_blocks, events_by_team, event_count, index_html>>

\* generate_index_html(OUTPUT_DIR, events_by_team) and the normal end
GenerateIndex ==
    /\ pc = "write"
    /\ i = Len(events_by_team)
    /\ index_html' = generate_index_html({events_by_team[k].team : k \in DOMAIN events_by_team})
    /\ Exit(0)
    /\ UNCHANGED <<csv_rows, rows, base_year, current_year, month_sequence,
                   year_for_month, blocks_by_row, row_index, active_blocks,
                   events_by_team, event_count, i, cal, files, written>>

Next ==
    \/ ConfigMissing
    \/ HttpError
    \/ DecodeError
    \/ Load
    \/ DetectRow
    \/ DetectEnd
    \/ ExtractRow
    \/ ExtractEnd
    \/ WriteTeam
    \/ GenerateIndex

Spec == Init /\ [][Next]_vars
SpecTeams == InitTeams /\ [][Next]_vars
SpecText == InitText /\ [][Next]_vars

(* ------------------------------ claims -------------------------------- *)

Max(S) == CHOOSE x \in S : \A y \in S : y <= x
Min(S) == CHOOSE x \in S : \A y \in S : x <= y

\* the blocks of the nearest header row before row r, none before the first
ActiveAt(r) ==
    LET hs == {h \in DOMAIN blocks_by_row : h < r}
    IN IF hs = {} THEN <<>> ELSE blocks_by_row[Max(hs)]

ResolvedYear(month) ==
    IF month \in DOMAIN year_for_month THEN year_for_month[month] ELSE base_year

\* the events row r owes to block blk: the start column holds a plain 1-2
\* digit day, the date exists, and the team cell is non-empty
ReferenceOfBlock(r, blk) ==
    LET row == rows[r + 1]
    IN IF blk.start_col < Len(row)
          /\ IsDayNumber(row[blk.start_col + 1])
          /\ ValidDate(ResolvedYear(blk.month), blk.month, ToInt(row[blk.start_col + 1]))
       THEN { [date |-> [year |-> ResolvedYear(blk.month), month |-> blk.month,
                         day |-> ToInt(row[blk.start_col + 1])],
               team |-> blk.team_cols[k].team,
               text |-> row[blk.team_cols[k].col + 1]] :
                k \in {n \in DOMAIN blk.team_cols :
                         /\ blk.team_cols[n].col < Len(row)
                         /\ row[blk.team_cols[n].col + 1] # <<>>} }
       ELSE {}

ReferenceEvents ==
    UNION { UNION { ReferenceOfBlock(r, ActiveAt(r)[b]) : b \in DOMAIN ActiveAt(r) } :
              r \in (0..(Len(rows) - 1)) \ DOMAIN blocks_by_row }

EmittedEvents ==
    UNION { { [date |-> events_by_team[t].events[k].date,
               team |-> events_by_team[t].team,
               text |-> events_by_team[t].events[k].content] :
                k \in DOMAIN events_by_team[t].events } :
              t \in DOMAIN events_by_team }

Extracted == pc \in {"write", "done"}

\* C1: once all rows are extracted, the set of emitted events (date, team,
\* text) equals the reference set: one event for each non-header row, block
\* of the active set and team column such that the start column holds a plain
\* 1-2 digit day, the date is valid, and the team cell is non-empty, with
\* text equal to that cell.  Teams without such a cell are absent.
C1_EventsEqualReference ==
    Extracted =>
        /\ EmittedEvents = ReferenceEvents
        /\ {events_by_team[t].team : t \in DOMAIN events_by_team}
             = {e.team : e \in ReferenceEvents}

\* the number of descents among the first n entries of a month sequence
RECURSIVE Descents(_, _)
Descents(ms, n) ==
    IF n <= 1 THEN 0
    ELSE Descents(ms, n - 1) + (IF ms[n] < ms[n - 1] THEN 1 ELSE 0)

\* C2: the year assigned to each distinct month equals the starting year plus
\* the number of descents in the sequence of first-seen distinct months up to
\* and including that month; repeated occurrences of a month change nothing.
C2_YearIsBasePlusDescents ==
    \A n \in DOMAIN month_sequence :
        /\ month_sequence[n] \in DOMAIN year_for_month
        /\ year_for_month[month_sequence[n]] = base_year + Descents(month_sequence, n)

\* C3: a grid with zero usable header blocks never reaches the successful
\* end state; the run ends with a non-zero exit status.
C3_NoBlocksIsFatal ==
    (pc = "done" /\ exit_code = 0) => DOMAIN blocks_by_row # {}

\* C4: two distinct teams are written to distinct file names, so the number
\* of calendar files equals the number of teams.
C4_OneFilePerTeam ==
    /\ \A k1, k2 \in DOMAIN written :
          written[k1].team # written[k2].team => written[k1].path # written[k2].path
    /\ Cardinality(DOMAIN files) = Len(written)

\* C5: the link of every team in index.html is the name of the file written
\* for that team, and the teams are listed in lexicographic order.
C5_IndexLinksMatchFiles ==
    pc = "done" =>
        /\ {index_html[k].team : k \in DOMAIN index_html}
             = {events_by_team[t].team : t \in DOMAIN events_by_team}
        /\ \A k \in DOMAIN index_html :
              \E w \in DOMAIN written :
                  /\ written[w].team = index_html[k].team
                  /\ written[w].path = index_html[k].href
        /\ \A k1, k2 \in DOMAIN index_html :
              k1 < k2 => StrLess(index_html[k1].team, index_html[k2].team)

\* the cells of the cleaned grid
Cells == UNION { {rows[r][c] : c \in DOMAIN rows[r]} : r \in DOMAIN rows }

\* C6: normalising a normalised cell returns it unchanged, and a normalised
\* cell has no leading or trailing whitespace and no run of two or more
\* whitespace characters.
C6_CleanIdempotent ==
    \A x \in Cells :
        /\ clean(x) = x
        /\ x # <<>> => ~IsSpace(x[1]) /\ ~IsSpace(x[Len(x)])
        /\ \A k \in 1..(Len(x) - 1) : ~(IsSpace(x[k]) /\ IsSpace(x[k + 1]))

\* the entries of the calendars written, each with its team
WrittenEntries ==
    UNION { { [team |-> files[n].calname, entry |-> e] : e \in files[n].events } :
              n \in DOMAIN files }

\* C7: two entries carry the same identifier exactly when they have the same
\* date, the same team and the same text.
C7_UidIdentifiesTuple ==
    \A x, y \in WrittenEntries :
        (x.entry.uid = y.entry.uid)
            <=> (/\ x.team = y.team
                 /\ x.entry.date = y.entry.date
                 /\ x.entry.name = y.entry.name)

\* the row holds a block start: a month label followed by an empty cell
HasBlockStart(row) == \E col \in 0..(Len(row) - 2) : IsBlockStart(row, col)

BlocksOfRow(r) == IF r \in DOMAIN blocks_by_row THEN blocks_by_row[r] ELSE <<>>

\* C8: in the event row loop, a row holding a block start emits no events and
\* its blocks replace the active set; any other row leaves the active set as
\* it is.
C8_BlockStartRowsAreHeaders ==
    [][(pc = "extract" /\ row_index < Len(rows)) =>
          IF HasBlockStart(rows[row_index + 1])
          THEN /\ events_by_team' = events_by_team
               /\ active_blocks' = BlocksOfRow(row_index)
          ELSE active_blocks' = active_blocks]_vars

\* the column where the team scan of a block starting at col is to stop:
\* the next block start, or the end of the row
ScanEnd(row, col) ==
    LET starts == {c \in (col + 2)..(Len(row) - 2) : IsBlockStart(row, c)}
    IN IF starts = {} THEN Len(row) ELSE Min(starts)

\* C9: the team columns of every block are all the non-empty cells from two
\* columns after the block start up to the next block start or the end of the
\* row; a month label whose next cell is not empty is among them.
C9_TeamScanStopsAtBlockStartOnly ==
    \A r \in DOMAIN blocks_by_row :
        \A b \in DOMAIN blocks_by_row[r] :
            LET blk == blocks_by_row[r][b]
                row == rows[r + 1]
            IN {blk.team_cols[k].col : k \in DOMAIN blk.team_cols}
                 = {c \in (blk.start_col + 2)..(ScanEnd(row, blk.start_col) - 1) :
                      row[c + 1] # <<>>}

(* Reference reading of "the text contains a time range", stated on the    *)
(* event text itself and without the search procedure.                     *)

DashGlyphs == {"-", "~", WAVE, FWTILDE, ENDASH, EMDASH}
ColonGlyphs == {":", FWCOLON}

\* s reads H:MM or HH:MM
IsColonTime(s) ==
    /\ Len(s) \in {4, 5}
    /\ s[Len(s) - 2] \in ColonGlyphs
    /\ \A k \in (1..Len(s)) \ {Len(s) - 2} : IsDigit(s[k])

\* the clock value of a time of the given kind, as <<hour, minute>>
ClockOf(s, kind) ==
    IF kind = "colon"
    THEN <<ToInt(SubSeq(s, 1, Len(s) - 3)), ToInt(SubSeq(s, Len(s) - 1, Len(s)))>>
    ELSE <<ToInt(s), 0>>

\* the ends j of a time of the given kind that starts at position st of d: a
\* colon time, or a run of one or two digits taken as long as possible
TimeEnds(d, st, kind) ==
    IF kind = "colon"
    THEN {j \in st..Len(d) : IsColonTime(SubSeq(d, st, j))}
    ELSE {j \in st..Len(d) :
            /\ j - st < 2
            /\ \A k \in st..j : IsDigit(d[k])
            /\ ~(j - st < 1 /\ j < Len(d) /\ IsDigit(d[j + 1]))}

\* the ranges <<first time, second time>> of the given kind that start at
\* position st of d: time, optional spaces, a dash, optional spaces, time
RangesFrom(d, st, kind) ==
    UNION { UNION { UNION { { <<ClockOf(SubSeq(d, st, e1), kind),
                                ClockOf(SubSeq(d, s2, e2), kind)>> :
                                  e2 \in TimeEnds(d, s2, kind) } :
                              s2 \in {p \in (dash + 1)..Len(d) :
                                        \A k \in (dash + 1)..(p - 1) : IsSpace(d[k])} } :
                      dash \in {p \in (e1 + 1)..Len(d) :
                                  /\ d[p] \in DashGlyphs
                                  /\ \A k \in (e1 + 1)..(p - 1) : IsSpace(d[k])} } :
              e1 \in TimeEnds(d, st, kind) }

HasRange(d, kind) == \E st \in 1..Len(d) : RangesFrom(d, st, kind) # {}

\* the first range of the given kind in d
FirstRange(d, kind) ==
    LET st == Min({p \in 1..Len(d) : RangesFrom(d, p, kind) # {}})
    IN CHOOSE rg \in RangesFrom(d, st, kind) : TRUE

\* the range the entry is to be timed by: the first HH:MM-HH:MM range, or
\* else the first bare H-H range; <<>> when the text holds neither
RangeOfText(d) ==
    IF HasRange(d, "colon") THEN FirstRange(d, "colon")
    ELSE IF HasRange(d, "bare") THEN FirstRange(d, "bare")
    ELSE <<>>

IsClock(t) == t[1] <= 23 /\ t[2] <= 59
Minutes(t) == 60 * t[1] + t[2]

\* both ends are clock times and the end is not before the start
UsableRange(rg) ==
    /\ rg # <<>>
    /\ IsClock(rg[1])
    /\ IsClock(rg[2])
    /\ Minutes(rg[1]) <= Minutes(rg[2])

ReversedRange(rg) ==
    rg # <<>> /\ IsClock(rg[1]) /\ IsClock(rg[2]) /\ Minutes(rg[2]) < Minutes(rg[1])

\* the events of the team whose calendar was built last
LastEvents == events_by_team[i].events

\* C10: every event of a team yields exactly one entry of the team's
\* calendar, on the event's date; the entry is timed, from the start to the
\* end of the range, exactly when the text's range has two valid clock times
\* with the end not before the start, and is an all-day entry otherwise (no
\* range, an hour above 23, a reversed range).  Building entries never ends
\* the run in failure.
C10_TimedOrAllDay ==
    /\ pc = "failed" => (rows = <<>> /\ written = <<>>)
    /\ (pc \in {"write", "done"} /\ i >= 1) =>
          /\ cal.calname = events_by_team[i].team
          /\ \A e \in cal.events :
                \E k \in DOMAIN LastEvents :
                    LastEvents[k].date = e.date /\ LastEvents[k].content = e.name
          /\ \A k \in DOMAIN LastEvents :
                LET ev == LastEvents[k]
                    es == {e \in cal.events : e.date = ev.date /\ e.name = ev.content}
                    rg == RangeOfText(ev.content)
                IN /\ Cardinality(es) = 1
                   /\ \A e \in es :
                         IF UsableRange(rg)
                         THEN /\ ~e.all_day
                              /\ e.begin = Minutes(rg[1])
                              /\ e.end = Minutes(rg[2])
                         ELSE e.all_day

\* a text with a reversed range of valid clock times was given an all-day entry
C10_Witness ==
    /\ pc = "done"
    /\ i >= 1
    /\ \E e \in cal.events : ReversedRange(RangeOfText(e.name)) /\ e.all_day

====
